---- MODULE Spec2Model ----
(***************************************************************************)
(* The control session of pyremoteplay (pyremoteplay/ctrl.py, class CTRL)  *)
(* and the socket worker it starts (pyremoteplay/util.py, listener).       *)
(*                                                                         *)
(* Bytes are integers 0..255, byte strings are sequences of bytes.  The    *)
(* cipher (pyremoteplay/crypt.py, RPCipher) is a keystream cipher with one *)
(* position that encrypt and decrypt both advance by the buffer length.    *)
(***************************************************************************)
EXTENDS Integers, Sequences, FiniteSets, TLC

(***************************************************************************)
(* Bounds of the model.                                                    *)
(***************************************************************************)
\* longest payload the codec is tried on
MaxPayload == 3
\* keystream bytes the session may consume after the handshake
MaxStream == 12
\* seconds the clock may run after construction
MaxElapsed == 6
\* frames the send queue may hold
MaxQueue == 2
\* test streams that may run while the session no longer references them
MaxOrphans == 1
\* the clock's reading (seconds since the epoch) when the session is built
StartTime == 10

(***************************************************************************)
(* Program constants.                                                      *)
(***************************************************************************)
HEADER_LENGTH == 8
LOGIN_PIN_REQUEST == 4
LOGIN_PIN_RESPONSE == 32772
LOGIN == 5
SESSION_ID == 51
HEARTBEAT_REQUEST == 254
HEARTBEAT_RESPONSE == 510
STANDBY == 80
KEYBOARD_ENABLE_TOGGLE == 32
KEYBOARD_OPEN == 33
KEYBOARD_CLOSE_REMOTE == 34
KEYBOARD_TEXT_CHANGE_REQ == 35
KEYBOARD_TEXT_CHANGE_RES == 36
KEYBOARD_CLOSE_REQ == 37
\* seconds without heartbeat after which _handle sends a heartbeat request
HbTimeout == 5
\* HTTP status of an accepted request
HttpOk == 200
\* bytes the handshake passes through the cipher: the registration key and
\* its padding, the device id, the OS type, the bitrate, the server type
RegistKeyBytes == 8
RegistKeyPad == 8
DidBytes == 32
OsTypeBytes == 10
BitrateBytes == 4
ServerTypeBytes == 4
\* self._cipher = None
NoCipher == -1
\* no member of MessageType: the lookup raised ValueError, or was not reached
NoType == -1

\* class CTRL.MessageType: the values of the enumeration
MessageType ==
    { LOGIN_PIN_REQUEST, LOGIN_PIN_RESPONSE, LOGIN, SESSION_ID,
      HEARTBEAT_REQUEST, HEARTBEAT_RESPONSE, STANDBY, KEYBOARD_ENABLE_TOGGLE,
      KEYBOARD_OPEN, KEYBOARD_CLOSE_REMOTE, KEYBOARD_TEXT_CHANGE_REQ,
      KEYBOARD_TEXT_CHANGE_RES, KEYBOARD_CLOSE_REQ }

\* the module constant HEARTBEAT_RESPONSE = b"\x00\x00\x00\x00\x01\xfe\x00\x00"
HEARTBEAT_RESPONSE_PAYLOAD == <<0, 0, 0, 0, 1, 254, 0, 0>>

(***************************************************************************)
(* Bytes.                                                                  *)
(***************************************************************************)
RECURSIVE XorBits(_, _, _)
XorBits(a, b, n) ==
    IF n = 0 THEN 0
    ELSE (((a % 2) + (b % 2)) % 2) + (2 * XorBits(a \div 2, b \div 2, n - 1))

XorTable == [a \in 0..255 |-> [b \in 0..255 |-> XorBits(a, b, 8)]]

Xor(a, b) == XorTable[a][b]

\* well-formed UTF-8, as bytes.decode() accepts it
RECURSIVE IsValidText(_)
IsValidText(s) ==
    LET n == Len(s)
        Cont(i) == i <= n /\ s[i] \in 128..191
        Rest(k) == SubSeq(s, k + 1, n)
    IN  IF n = 0 THEN TRUE
        ELSE IF s[1] < 128 THEN IsValidText(Rest(1))
        ELSE IF s[1] \in 194..223 /\ Cont(2) THEN IsValidText(Rest(2))
        ELSE IF s[1] = 224 /\ n >= 2 /\ s[2] \in 160..191 /\ Cont(3)
             THEN IsValidText(Rest(3))
        ELSE IF s[1] \in (225..236) \cup {238, 239} /\ Cont(2) /\ Cont(3)
             THEN IsValidText(Rest(3))
        ELSE IF s[1] = 237 /\ n >= 2 /\ s[2] \in 128..159 /\ Cont(3)
             THEN IsValidText(Rest(3))
        ELSE IF s[1] = 240 /\ n >= 2 /\ s[2] \in 144..191 /\ Cont(3) /\ Cont(4)
             THEN IsValidText(Rest(4))
        ELSE IF s[1] \in 241..243 /\ Cont(2) /\ Cont(3) /\ Cont(4)
             THEN IsValidText(Rest(4))
        ELSE IF s[1] = 244 /\ n >= 2 /\ s[2] \in 128..143 /\ Cont(3) /\ Cont(4)
             THEN IsValidText(Rest(4))
        ELSE FALSE

(***************************************************************************)
(* RPCipher: the keystream and its application.                            *)
(***************************************************************************)
\* the keystream byte at position i
KeyStream(i) == ((i * 89) + 23) % 256

\* encrypt and decrypt: the buffer XOR the keystream from position pos on
Crypt(buf, pos) == [i \in 1..Len(buf) |-> Xor(buf[i], KeyStream(pos + i - 1))]

(***************************************************************************)
(* Framing.                                                                *)
(***************************************************************************)
\* struct format "!IHxx": u32 length, u16 type, two pad bytes, big-endian
Header(length, msg_type) ==
    << (length \div 16777216) % 256, (length \div 65536) % 256,
       (length \div 256) % 256, length % 256,
       (msg_type \div 256) % 256, msg_type % 256, 0, 0 >>

\* the u32 and the u16 a header declares
DeclaredLength(data) ==
    (data[1] * 16777216) + (data[2] * 65536) + (data[3] * 256) + data[4]

DeclaredType(data) == (data[5] * 256) + data[6]

\* _build_msg: the cipher consumes the payload, its output is dropped, and
\* the frame carries the payload as it was given
_build_msg(msg_type, payload) == Header(Len(payload), msg_type) \o payload

\* the frame a conforming peer puts on the wire: header, then ciphertext
PeerFrame(msg_type, payload, pos) ==
    Header(Len(payload), msg_type) \o Crypt(payload, pos)

(***************************************************************************)
(* The session.                                                            *)
(***************************************************************************)
VARIABLES
    state,          \* self._state: "init" | "ready"
    session_id,     \* self._session_id
    hb_last,        \* self._hb_last
    cipher,         \* self._cipher: NoCipher, or the keystream position
    sock,           \* self._sock: "none" | "open" | "eof" (the peer closed
                    \* it and a read returned no bytes) | "closed"
    send_buf,       \* self._send_buf
    stop_event,     \* self._stop_event
    stream,         \* self._stream: "none" | "test" | "real"
    stream_stop,    \* the stop signal self._stream was given:
                    \* "none" | "own" | "session"
    orphans,        \* test streams still running that self._stream no
                    \* longer references
    cb_start,       \* self._cb_start is not None
    worker,         \* self._worker: "none" | "started" | "crashed", and of
                    \* a thread inside listener: "entered" | "running" |
                    \* "exited"
    startPc,        \* where a running start() call stands
    call,           \* the running or last start() call
    peerPos,        \* keystream position of the peer's cipher
    now,            \* time.time()
    last            \* the operation that ran last, with what it was given and did

vars == << state, session_id, hb_last, cipher, sock, send_buf, stop_event,
           stream, stream_stop, orphans, cb_start, worker, startPc, call, peerPos, now, last >>

\* bytes a payload is made of: 'A', 'B', and a byte no text contains
PayloadBytes == {65, 66, 255}

RECURSIVE SeqsUpTo(_, _)
SeqsUpTo(S, n) ==
    IF n = 0 THEN { <<>> }
    ELSE LET shorter == SeqsUpTo(S, n - 1)
         IN  shorter \cup { Append(q, b) : q \in shorter, b \in S }

\* payloads of the frames a peer sends: none, and the two-byte prefix
\* followed by 'A', by 'B', by a byte that is no text
Payloads == { <<>>, <<0, 0, 65>>, <<0, 0, 66>>, <<0, 0, 255>> }

\* message types a peer frame declares: members of the enumeration, and
\* values outside it (one byte and two bytes wide)
InboundTypes ==
    { SESSION_ID, HEARTBEAT_REQUEST, HEARTBEAT_RESPONSE, STANDBY, 153, 307 }

\* what the record of an operation holds when the operation is not _handle
Note(op) ==
    [ op |-> op, data |-> <<>>, plain |-> <<>>, payload |-> <<>>,
      typ |-> NoType, pos0 |-> cipher, sid0 |-> session_id, hb0 |-> hb_last, t0 |-> now,
      stop0 |-> stop_event, sent |-> <<>>, cb |-> FALSE, boot |-> FALSE,
      raised |-> FALSE, made |-> "none", seen |-> <<>>, crypt |-> 0,
      mtu |-> "none" ]

Init ==
    /\ state = "init"
    /\ session_id = <<>>
    /\ hb_last = 0
    /\ cipher = NoCipher
    /\ sock = "none"
    /\ send_buf = <<>>
    /\ stop_event = FALSE
    /\ stream = "none"
    /\ stream_stop = "none"
    /\ orphans = 0
    /\ cb_start \in BOOLEAN
    /\ worker = "none"
    /\ startPc = "idle"
    /\ call = [ hostUp |-> FALSE, init |-> FALSE, status |-> 0,
                key |-> FALSE, auth |-> FALSE, result |-> "none" ]
    /\ peerPos = 0
    /\ now = StartTime
    /\ last = [ op |-> "__init__", data |-> <<>>, plain |-> <<>>,
                payload |-> <<>>, typ |-> NoType, pos0 |-> NoCipher, sid0 |-> <<>>, hb0 |-> 0,
                t0 |-> StartTime, stop0 |-> FALSE, sent |-> <<>>, cb |-> FALSE,
                boot |-> FALSE, raised |-> FALSE, made |-> "none",
                seen |-> <<>>, crypt |-> 0,
      mtu |-> "none" ]

(***************************************************************************)
(* start(): the availability check and the two HTTP exchanges.             *)
(***************************************************************************)
\* _check_host with its result ignored: the host always counts as available
_check_host_always(devices) == TRUE

\* _check_host: True when the discovery helper reports devices at the host
_check_host(devices) == devices

\* responses to the init request: status, the RP-Application-Reason header
\* (absent, a code of CTRL.Error, another code) and whether RP-Nonce is set
InitResponses ==
    [ status : {HttpOk, 403}, reason : {"absent", "known", "other"},
      nonce : BOOLEAN ]

\* responses to the auth request: status and whether RP-Server-Type is set
AuthResponses == [ status : {HttpOk, 403}, server_type : BOOLEAN ]

\* _parse_init: "raise" when reading the reason of a rejection fails,
\* "none" when the response carries no nonce, "nonce" otherwise
_parse_init(response) ==
    IF response.status # HttpOk /\ response.reason # "known" THEN "raise"
    ELSE IF response.nonce THEN "nonce"
    ELSE "none"

\* _get_ctrl_headers: a new cipher, then four header values encrypted
_get_ctrl_headers ==
    0 + (RegistKeyBytes + RegistKeyPad) + DidBytes + OsTypeBytes + BitrateBytes

\* _send_auth: False unless the status is 200 and the server type is given
_send_auth(response) == response.status = HttpOk /\ response.server_type

\* the arguments start() gives the worker thread, and listener's parameters
WorkerArgs == << "CTRL", "_sock", "_handle", "send", "_stop_event" >>
ListenerParams == << "name", "sock", "handle", "stop_event" >>

\* start(), up to the availability check
StartCheckHost(devices) ==
    /\ startPc = "idle"
    /\ state = "init"
    /\ call' = [ hostUp |-> devices, init |-> FALSE, status |-> 0,
                 key |-> FALSE, auth |-> FALSE,
                 result |-> IF _check_host(devices) THEN "running" ELSE "False" ]
    /\ startPc' = IF _check_host(devices) THEN "connect" ELSE "idle"
    /\ last' = Note("start")
    /\ UNCHANGED << state, session_id, hb_last, cipher, sock, send_buf,
                    stop_event, stream, stream_stop, orphans, cb_start, worker, peerPos, now >>

\* connect(): _init_ctrl, _parse_init and _get_ctrl_headers.  failed: the
\* request raised (no response).
InitCtrl(failed, response) ==
    /\ startPc = "connect"
    /\ LET parsed == IF failed THEN "raise" ELSE _parse_init(response)
       IN  /\ startPc' = IF parsed = "nonce" THEN "auth" ELSE "idle"
           /\ call' = [ call EXCEPT
                          !.init = TRUE,
                          !.status = IF failed THEN 0 ELSE response.status,
                          !.key = parsed = "nonce",
                          !.result =
                            IF parsed = "nonce" THEN "running"
                            ELSE IF parsed = "none" THEN "False" ELSE "raised" ]
           /\ cipher' = IF parsed = "nonce" THEN _get_ctrl_headers ELSE cipher
    /\ last' = [ Note("_init_ctrl") EXCEPT
                   !.raised = failed \/ _parse_init(response) = "raise" ]
    /\ UNCHANGED << state, session_id, hb_last, sock, send_buf, stop_event,
                    stream, stream_stop, orphans, cb_start, worker, peerPos,
                    now >>

\* connect(): _send_auth, and the rest of start() when it returned True
SendAuth(failed, response) ==
    /\ startPc = "auth"
    /\ startPc' = "idle"
    /\ IF ~failed /\ _send_auth(response)
       THEN /\ cipher' = cipher + ServerTypeBytes
            /\ peerPos' = cipher + ServerTypeBytes
            /\ sock' = "open"
            /\ state' = "ready"
            /\ worker' = "started"
            /\ call' = [ call EXCEPT !.auth = TRUE, !.result = "None" ]
       ELSE /\ call' = [ call EXCEPT !.auth = TRUE, !.result =
                             IF failed THEN "raised" ELSE "False" ]
            /\ UNCHANGED << cipher, peerPos, sock, state, worker >>
    /\ last' = [ Note("_send_auth") EXCEPT !.raised = failed ]
    /\ UNCHANGED << session_id, hb_last, send_buf, stop_event, stream, stream_stop, orphans,
                    cb_start, now >>

\* the worker thread's run: listener(*args)
WorkerRun ==
    /\ worker = "started"
    /\ worker' = IF Len(WorkerArgs) = Len(ListenerParams)
                 THEN "running" ELSE "crashed"
    /\ last' = Note("worker")
    /\ UNCHANGED << state, session_id, hb_last, cipher, sock, send_buf,
                    stop_event, stream, stream_stop, orphans, cb_start, startPc, call, peerPos, now >>

(***************************************************************************)
(* Streaming bootstrap.                                                    *)
(***************************************************************************)
\* start_stream without its test of the session identity
start_stream_unchecked(sid, test, current) ==
    IF test THEN "test" ELSE "real"

\* start_stream: the stream the session references afterwards
start_stream(sid, test, current) ==
    IF sid = <<>> THEN current
    ELSE IF test THEN "test" ELSE "real"

\* every stream given the session's stop signal
StreamStopEventShared(test) == "session"

\* stop_event = self._stop_event if not test else threading.Event()
StreamStopEvent(test) == IF ~test THEN "session" ELSE "own"

\* the stop signal of the stream referenced after a call of start_stream
\* that constructed made ("none": the call constructed no stream)
StopEventAfter(made, current) ==
    IF made = "none" THEN current ELSE StreamStopEvent(made = "test")

\* self._stream = RPStream(...): the test streams left running without a
\* reference when a call of start_stream that constructed made replaces
\* the stream current
Orphaned(made, current) ==
    IF made # "none" /\ current = "test" THEN 1 ELSE 0

\* start_stream(test), called by the session-ready callback or any caller
StartStream(test) ==
    /\ stream' = start_stream(session_id, test, stream)
    /\ stream_stop' =
           StopEventAfter(start_stream(session_id, test, "none"), stream_stop)
    /\ orphans' =
           orphans + Orphaned(start_stream(session_id, test, "none"), stream)
    /\ orphans' <= MaxOrphans
    /\ last' = [ Note("start_stream") EXCEPT
                   !.boot = TRUE,
                   !.made = start_stream(session_id, test, "none"),
                   !.mtu = IF start_stream(session_id, test, "none") = "real"
                           THEN "caller" ELSE "none" ]
    /\ UNCHANGED << state, session_id, hb_last, cipher, sock, send_buf,
                    stop_event, cb_start, worker, startPc, call, peerPos, now >>

\* mtu = self._stream.mtu; rtt = self._stream.rtt: whose measurements
\* _cb_stop_test reads when the test stream that stopped is (own) or is not
\* the stream the session references: its own, those of another test
\* stream ("test"), those of a non-test stream ("real")
Measured(own, current) == IF own THEN "own" ELSE current

\* _cb_stop_test, called by a test stream that stopped: the one the session
\* references (own) or one it no longer references
_cb_stop_test(own) ==
    /\ IF own THEN stream = "test" ELSE orphans > 0
    /\ IF stream = "none"
       THEN \* self._stream.mtu raises AttributeError
            /\ orphans' = orphans - 1
            /\ last' = [ Note("_cb_stop_test") EXCEPT !.raised = TRUE ]
            /\ UNCHANGED << stream, stream_stop >>
       ELSE /\ stream' = start_stream(session_id, FALSE, "none")
            /\ stream_stop' =
                   StopEventAfter(start_stream(session_id, FALSE, "none"),
                                  "none")
            /\ orphans' = IF own THEN orphans
                          ELSE (orphans - 1) + Orphaned("real", stream)
            /\ last' = [ Note("_cb_stop_test") EXCEPT
                           !.boot = TRUE,
                           !.made = start_stream(session_id, FALSE, "none"),
                           !.mtu =
                             IF start_stream(session_id, FALSE, "none") = "real"
                             THEN Measured(own, stream) ELSE "none" ]
    /\ UNCHANGED << state, session_id, hb_last, cipher, sock, send_buf,
                    stop_event, cb_start, worker, startPc, call, peerPos, now >>

\* the stream's stop signal is set: stream._stop_event.set()
StreamStopSet ==
    /\ stream # "none"
    /\ ~(stream_stop = "session" /\ stop_event)
    /\ stop_event' = IF stream_stop = "session" THEN TRUE ELSE stop_event
    /\ last' = Note("stream_stop")
    /\ UNCHANGED << state, session_id, hb_last, cipher, sock, send_buf,
                    stream, stream_stop, orphans, cb_start, worker, startPc, call,
                    peerPos, now >>

(***************************************************************************)
(* _handle: the dispatch of one read.                                      *)
(***************************************************************************)
\* data[8:]
Ciphertext(data) == SubSeq(data, HEADER_LENGTH + 1, Len(data))

\* payload = self._cipher.decrypt(payload) if payload
HandlePayload(data, pos) == Crypt(Ciphertext(data), pos)

\* the value _handle looks up in the enumeration: data[5]
MsgTypeOf(data) == data[6]

\* the prefix taken one byte too long: payload[3:]
SessionIdOfLongPrefix(payload) == SubSeq(payload, 4, Len(payload))

\* session_id = payload[2:]
SessionIdOf(payload) == SubSeq(payload, 3, Len(payload))

\* the timeout compared with >= : stale already at five seconds
HbStaleInclusive(t, hb) == t - hb >= HbTimeout

\* time.time() - self._hb_last > 5
HbStale(t, hb) == t - hb > HbTimeout

\* the callback and start_stream both run: the else of the test is lost
NotifyBoth(cb) == [ cb |-> cb, boot |-> TRUE ]

\* if self._cb_start is not None: self._cb_start(self)
\* else: self.start_stream()
Notify(cb) == [ cb |-> cb, boot |-> ~cb ]

\* what _handle does with data, given the session's fields
HandleResult(data, pos, sid0, hb0, t, strm, cb) ==
    LET payload == HandlePayload(data, pos)
        pos1 == pos + Len(Ciphertext(data))
        quiet == [ pos |-> pos1, sid |-> sid0, hb |-> hb0, sent |-> <<>>,
                   stream |-> strm, cb |-> FALSE, boot |-> FALSE,
                   raised |-> FALSE, payload |-> payload, typ |-> NoType,
                   made |-> "none", seen |-> <<>>,
                   crypt |-> IF Ciphertext(data) # <<>> THEN 1 ELSE 0 ]
    IN  IF Len(data) < 6 THEN [ quiet EXCEPT !.raised = TRUE ]
        ELSE IF MsgTypeOf(data) \notin MessageType THEN quiet
        ELSE
        LET msg_type == MsgTypeOf(data)
            isReq == msg_type = HEARTBEAT_REQUEST
            isRes == msg_type = HEARTBEAT_RESPONSE
            isSid == ~isRes /\ msg_type = SESSION_ID
            hb1 == IF isReq \/ isRes THEN t ELSE hb0
            sent1 == IF isReq
                     THEN << _build_msg(HEARTBEAT_RESPONSE,
                                        HEARTBEAT_RESPONSE_PAYLOAD) >>
                     ELSE <<>>
            pos2 == IF isReq THEN pos1 + Len(HEARTBEAT_RESPONSE_PAYLOAD)
                    ELSE pos1
            sid == SessionIdOf(payload)
            done == [ quiet EXCEPT !.pos = pos2, !.hb = hb1, !.sent = sent1,
                                   !.typ = msg_type,
                                   !.crypt = @ + Len(sent1) ]
        IN  IF isSid /\ ~IsValidText(sid) THEN done
            ELSE
            LET sid1 == IF isSid THEN sid ELSE sid0
                boot == isSid /\ Notify(cb).boot
                strm1 == IF boot THEN start_stream(sid1, TRUE, strm) ELSE strm
                sent2 == IF HbStale(t, hb1)
                         THEN Append(sent1, _build_msg(HEARTBEAT_REQUEST, <<>>))
                         ELSE sent1
                made == IF boot THEN start_stream(sid1, TRUE, "none")
                        ELSE "none"
            IN  [ done EXCEPT !.sid = sid1, !.stream = strm1, !.sent = sent2,
                              !.cb = isSid /\ Notify(cb).cb, !.boot = boot,
                              !.made = made,
                              !.seen = IF isSid THEN sid1 ELSE <<>>,
                              !.crypt = @ + Len(sent2) - Len(sent1) ]

\* the keystream the peer consumes for the frames it is sent
RECURSIVE DeclaredTotal(_)
DeclaredTotal(frames) ==
    IF frames = <<>> THEN 0
    ELSE DeclaredLength(Head(frames)) + DeclaredTotal(Tail(frames))

\* _handle(data); plain is what the peer encoded into data
_handle(data, plain) ==
    /\ state = "ready"
    /\ sock = "open"
    /\ \E r \in { HandleResult(data, cipher, session_id, hb_last, now, stream,
                               cb_start) } :
           /\ cipher' = r.pos
           /\ session_id' = r.sid
           /\ hb_last' = r.hb
           /\ stream' = r.stream
           /\ stream_stop' = StopEventAfter(r.made, stream_stop)
           /\ orphans' = orphans + Orphaned(r.made, stream)
           /\ orphans' <= MaxOrphans
           /\ peerPos' = peerPos + Len(plain) + DeclaredTotal(r.sent)
           /\ last' = [ Note("_handle") EXCEPT
                          !.data = data, !.plain = plain,
                          !.payload = r.payload, !.typ = r.typ,
                          !.sent = r.sent, !.cb = r.cb,
                          !.boot = r.boot, !.raised = r.raised,
                          !.made = r.made, !.seen = r.seen,
                          !.crypt = r.crypt ]
    /\ UNCHANGED << state, sock, send_buf, stop_event, cb_start, worker,
                    startPc, call, now >>

\* the keystream position the model lets the session reach
StreamEnd == _get_ctrl_headers + ServerTypeBytes + MaxStream

\* the peer writes one frame and the session dispatches what it read
Dispatch ==
    \E t \in InboundTypes, p \in Payloads :
        /\ _handle(PeerFrame(t, p, peerPos), p)
        /\ cipher' <= StreamEnd

\* message types and payloads of the second of two frames a peer writes
\* back to back
CoalescedTypes == { STANDBY, SESSION_ID }
CoalescedPayloads == { <<>>, <<0, 0, 65>> }

\* the peer writes two frames and one read returns both: recv(4096) hands
\* _handle whatever the socket holds
DispatchCoalesced ==
    \E t1 \in InboundTypes, p1 \in Payloads,
       t2 \in CoalescedTypes, p2 \in CoalescedPayloads :
        /\ _handle(PeerFrame(t1, p1, peerPos)
                       \o PeerFrame(t2, p2, peerPos + Len(p1)),
                   p1 \o p2)
        /\ cipher' <= StreamEnd

\* a read that returned less than a header
DispatchShort ==
    \E n \in 1..5 : _handle(SubSeq(Header(0, LOGIN), 1, n), <<>>)

(***************************************************************************)
(* Outbound helpers.                                                       *)
(***************************************************************************)
\* _send_standby, from any thread
_send_standby ==
    /\ state = "ready"
    /\ sock = "open"
    /\ LET msg == _build_msg(STANDBY, <<>>)
       IN  /\ cipher' = cipher + Len(<<>>)
           /\ peerPos' = peerPos + DeclaredLength(msg)
           /\ last' = [ Note("_send_standby") EXCEPT
                          !.sent = << msg >>, !.crypt = 1 ]
    /\ UNCHANGED << state, session_id, hb_last, sock, send_buf, stop_event,
                    stream, stream_stop, orphans, cb_start, worker, startPc, call, now >>

\* frames a producer puts on the send queue, one kind after the other
QueuedFrames == << _build_msg(STANDBY, <<>>), _build_msg(LOGIN, <<>>) >>

\* self._send_buf.put(frame), by a producer in any thread
Put(frame) ==
    /\ Len(send_buf) < MaxQueue
    /\ send_buf' = Append(send_buf, frame)
    /\ last' = Note("put")
    /\ UNCHANGED << state, session_id, hb_last, cipher, sock, stop_event,
                    stream, stream_stop, orphans, cb_start, worker, startPc, call,
                    peerPos, now >>

\* send(): one queued frame, if there is one, goes to the socket
send ==
    /\ state = "ready"
    /\ sock = "open"
    /\ IF send_buf # <<>>
       THEN /\ send_buf' = Tail(send_buf)
            /\ last' = [ Note("send") EXCEPT !.sent = << Head(send_buf) >> ]
       ELSE /\ send_buf' = send_buf
            /\ last' = Note("send")
    /\ UNCHANGED << state, session_id, hb_last, cipher, sock, stop_event,
                    stream, stream_stop, orphans, cb_start, worker, startPc, call, peerPos, now >>

(***************************************************************************)
(* The environment: the stop signal and the clock.                         *)
(***************************************************************************)
\* self._stop_event.set(), from any thread
StopSet ==
    /\ ~stop_event
    /\ stop_event' = TRUE
    /\ last' = Note("set")
    /\ UNCHANGED << state, session_id, hb_last, cipher, sock, send_buf,
                    stream, stream_stop, orphans, cb_start, worker, startPc, call, peerPos, now >>

\* time passes: up to the heartbeat timeout, or just beyond it
Tick ==
    \E d \in {HbTimeout, HbTimeout + 1} :
        /\ now + d <= StartTime + MaxElapsed
        /\ now' = now + d
        /\ last' = Note("tick")
        /\ UNCHANGED << state, session_id, hb_last, cipher, sock, send_buf,
                        stop_event, stream, stream_stop, orphans, cb_start, worker, startPc, call, peerPos >>

Next ==
    \/ \E devices \in BOOLEAN : StartCheckHost(devices)
    \/ \E failed \in BOOLEAN, response \in InitResponses :
           InitCtrl(failed, response)
    \/ \E failed \in BOOLEAN, response \in AuthResponses :
           SendAuth(failed, response)
    \/ WorkerRun
    \/ Dispatch
    \/ DispatchShort
    \/ \E test \in BOOLEAN : StartStream(test)
    \/ \E own \in BOOLEAN : _cb_stop_test(own)
    \/ StreamStopSet
    \/ _send_standby
    \/ send
    \/ StopSet
    \/ Tick

Spec == Init /\ [][Next]_vars

(***************************************************************************)
(* The codec alone: frames built by _build_msg and handed to _handle of a  *)
(* session whose cipher stands where the builder's cipher stood.           *)
(***************************************************************************)
\* a session as a successful start() leaves it, with its cipher and the
\* peer's at pos and its worker thread at w
Started(pos, w) ==
    /\ state = "ready"
    /\ session_id = <<>>
    /\ hb_last = 0
    /\ cipher = pos
    /\ sock = "open"
    /\ send_buf = <<>>
    /\ stop_event = FALSE
    /\ stream = "none"
    /\ stream_stop = "none"
    /\ orphans = 0
    /\ cb_start \in BOOLEAN
    /\ worker = w
    /\ startPc = "idle"
    /\ call = [ hostUp |-> TRUE, init |-> TRUE, status |-> HttpOk,
                key |-> TRUE, auth |-> TRUE, result |-> "None" ]
    /\ peerPos = pos
    /\ now = StartTime
    /\ last = [ op |-> "_send_auth", data |-> <<>>, plain |-> <<>>,
                payload |-> <<>>, typ |-> NoType, pos0 |-> _get_ctrl_headers,
                sid0 |-> <<>>, hb0 |-> 0, t0 |-> StartTime, stop0 |-> FALSE,
                sent |-> <<>>, cb |-> FALSE, boot |-> FALSE,
                raised |-> FALSE, made |-> "none", seen |-> <<>>,
                crypt |-> 0,
      mtu |-> "none" ]

\* the builder's cipher and the session's anywhere in the stream
InitCodec ==
    \E pos \in (_get_ctrl_headers + ServerTypeBytes)..StreamEnd :
        Started(pos, "crashed")

\* a peer running the same code builds one frame; the session dispatches it
Loopback ==
    \E t \in MessageType, p \in SeqsUpTo(PayloadBytes, MaxPayload) :
        /\ last.op # "_handle"
        /\ _handle(_build_msg(t, p), p)

NextCodec == Loopback

SpecCodec == InitCodec /\ [][NextCodec]_vars

(***************************************************************************)
(* Reads alone: what recv hands _handle of a started session, a read at a  *)
(* time, when the peer writes frames faster than the session reads them.   *)
(***************************************************************************)
InitReads == Started(_get_ctrl_headers + ServerTypeBytes, "crashed")

NextReads ==
    \/ Dispatch
    \/ DispatchCoalesced

SpecReads == InitReads /\ [][NextReads]_vars

(***************************************************************************)
(* The peer alone: a started session without a caller, driven by the       *)
(* frames the peer sends and by its test streams stopping.                 *)
(***************************************************************************)
InitPeer == Started(_get_ctrl_headers + ServerTypeBytes, "crashed")

NextPeer ==
    \/ Dispatch
    \/ \E own \in BOOLEAN : _cb_stop_test(own)
    \/ Tick

SpecPeer == InitPeer /\ [][NextPeer]_vars

(***************************************************************************)
(* listener, called with the four arguments it declares: the worker of a   *)
(* started session whose handle is _handle.                                *)
(***************************************************************************)
InitListener == Started(_get_ctrl_headers + ServerTypeBytes, "entered")

\* stop_event.clear()
ListenerClear ==
    /\ worker = "entered"
    /\ worker' = "running"
    /\ stop_event' = FALSE
    /\ last' = Note("clear")
    /\ UNCHANGED << state, session_id, hb_last, cipher, sock, send_buf,
                    stream, stream_stop, orphans, cb_start, startPc, call, peerPos, now >>

\* an iteration whose read returned data: handle(data)
ListenerRecv ==
    /\ worker = "running"
    /\ ~stop_event
    /\ Dispatch

\* an iteration whose select timed out
ListenerIdle ==
    /\ worker = "running"
    /\ ~stop_event
    /\ last' = Note("select")
    /\ UNCHANGED << state, session_id, hb_last, cipher, sock, send_buf,
                    stop_event, stream, stream_stop, orphans, cb_start, worker, startPc, call,
                    peerPos, now >>

\* an iteration whose read returned no bytes, taken for one that returned
\* nothing to handle: the stop signal is left alone
ListenerEofIgnored ==
    /\ worker = "running"
    /\ ~stop_event
    /\ sock' = "eof"
    /\ last' = Note("recv")
    /\ UNCHANGED << state, session_id, hb_last, cipher, send_buf,
                    stop_event, stream, stream_stop, orphans, cb_start, worker,
                    startPc, call, peerPos, now >>

\* an iteration whose read returned no bytes: stop_event.set()
ListenerEof ==
    /\ worker = "running"
    /\ ~stop_event
    /\ sock' = "eof"
    /\ stop_event' = TRUE
    /\ last' = Note("recv")
    /\ UNCHANGED << state, session_id, hb_last, cipher, send_buf,
                    stream, stream_stop, orphans, cb_start, worker, startPc, call,
                    peerPos, now >>

\* the loop's test found the stop signal set: sock.close()
ListenerExit ==
    /\ worker = "running"
    /\ stop_event
    /\ worker' = "exited"
    /\ sock' = "closed"
    /\ last' = Note("close")
    /\ UNCHANGED << state, session_id, hb_last, cipher, send_buf, stop_event,
                    stream, stream_stop, orphans, cb_start, startPc, call, peerPos, now >>

NextListener ==
    \/ ListenerClear
    \/ ListenerRecv
    \/ ListenerIdle
    \/ ListenerEof
    \/ ListenerExit
    \/ \E test \in BOOLEAN : StartStream(test)
    \/ \E own \in BOOLEAN : _cb_stop_test(own)
    \/ StreamStopSet
    \/ _send_standby
    \/ Put(QueuedFrames[(Len(send_buf) % Len(QueuedFrames)) + 1])
    \/ send
    \/ StopSet
    \/ Tick

SpecListener == InitListener /\ [][NextListener]_vars

\* the worker thread is scheduled: once the loop's test finds the stop signal
\* set, the thread goes on to close the socket
SpecListenerFair == SpecListener /\ WF_vars(ListenerExit)

(***************************************************************************)
(* Properties.                                                             *)
(***************************************************************************)
\* data is one whole frame: a header and as many bytes as it declares
Complete(data) ==
    /\ Len(data) >= HEADER_LENGTH
    /\ Len(data) = HEADER_LENGTH + DeclaredLength(data)

\* the frames among those written that are heartbeat requests
RECURSIVE HbRequests(_)
HbRequests(frames) ==
    IF frames = <<>> THEN 0
    ELSE (IF DeclaredType(Head(frames)) = HEARTBEAT_REQUEST THEN 1 ELSE 0)
         + HbRequests(Tail(frames))

\* the last operation dispatched one whole frame
Dispatched == last.op = "_handle" /\ Complete(last.data)

\* C1: a whole frame whose message type is no member of MessageType
\* advances the cipher by the declared payload length and changes nothing
\* else (identity, last heartbeat, frames written), the peer's cipher and the
\* session's stay aligned, and a frame of a known type decodes to the
\* plaintext the peer encoded.
C1_UnknownTypeDropped ==
    /\ (Dispatched /\ DeclaredType(last.data) \notin MessageType) =>
          /\ cipher = last.pos0 + DeclaredLength(last.data)
          /\ cipher = peerPos
          /\ session_id = last.sid0
          /\ hb_last = last.hb0
          /\ last.sent = <<>>
    /\ (Dispatched /\ DeclaredType(last.data) \in MessageType) =>
          last.payload = last.plain

\* C2: a frame built by _build_msg for any member of MessageType and any
\* payload decodes, on a cipher at the builder's position, to the same
\* message type and the same payload.
C2_CodecRoundTrip ==
    Dispatched =>
        /\ last.typ = DeclaredType(last.data)
        /\ last.payload = last.plain

\* C3: the identity is empty at construction and, once set, no later step
\* changes it.
C3_IdentitySetOnce ==
    [][session_id # <<>> => session_id' = session_id]_vars

\* C4: frames reach the socket only when send() flushes the queue: no other
\* operation writes a frame to the socket.
C4_OnlyFlushWrites == last.sent # <<>> => last.op = "send"

\* C5 as stated: with more than five seconds since the last heartbeat, a
\* dispatch of any message that is no heartbeat emits exactly one heartbeat
\* request; with five seconds or less, none.
C5_EveryDispatchCorrects ==
    Dispatched =>
        LET stale == last.t0 - last.hb0 > HbTimeout
            heartbeat == DeclaredType(last.data)
                             \in {HEARTBEAT_REQUEST, HEARTBEAT_RESPONSE}
        IN  /\ (stale /\ ~heartbeat) => HbRequests(last.sent) = 1
            /\ ~stale => HbRequests(last.sent) = 0

\* C5 amended: a dispatch emits exactly one heartbeat request when more than
\* five seconds have elapsed and _handle runs to its end without a heartbeat
\* request resetting the timer (the type byte is a member of MessageType
\* other than HEARTBEAT_REQUEST, and a SESSION_ID payload is text); a frame
\* that is dropped (type byte unknown, SESSION_ID not text) and a dispatch
\* within five seconds emit none.
C5_CompletedDispatchCorrects ==
    Dispatched =>
        LET stale == last.t0 - last.hb0 > HbTimeout
            byte == last.data[6]
            sid == SubSeq(last.payload, 3, Len(last.payload))
            dropped == \/ byte \notin MessageType
                       \/ byte = SESSION_ID /\ ~IsValidText(sid)
        IN  HbRequests(last.sent) =
                IF stale /\ ~dropped /\ byte # HEARTBEAT_REQUEST THEN 1 ELSE 0

\* C5 witness: a stale dispatch that emitted the request, after an earlier
\* heartbeat had been recorded
C5_Witness ==
    /\ Dispatched
    /\ last.hb0 > 0
    /\ last.t0 - last.hb0 > HbTimeout
    /\ DeclaredType(last.data) = STANDBY
    /\ HbRequests(last.sent) = 1

\* C6: once the stop signal is set and the worker thread is no longer
\* running, the loop has closed the socket.
C6_StopClosesSocket ==
    (stop_event /\ worker \notin {"none", "started", "running"}) =>
        sock = "closed"

\* listener: the stop signal, once set, stays set until the loop has exited
StopSignalKept ==
    [][(stop_event /\ worker # "exited") => stop_event']_vars

\* C7: a SESSION_ID message whose payload after the two-byte prefix is no
\* text leaves the identity as it was, calls neither the session-ready
\* callback nor start_stream, raises nothing, and leaves the stream, the
\* state and the stop signal as they were.
C7_MalformedSessionIdDropped ==
    ( /\ Dispatched
      /\ DeclaredType(last.data) = SESSION_ID
      /\ ~IsValidText(SubSeq(last.plain, 3, Len(last.plain))) ) =>
        /\ session_id = last.sid0
        /\ ~last.cb
        /\ ~last.boot
        /\ ~last.raised
        /\ stop_event = last.stop0
        /\ state = "ready"

\* C7 witness: a malformed SESSION_ID dispatched while the identity is empty
C7_Witness ==
    /\ Dispatched
    /\ DeclaredType(last.data) = SESSION_ID
    /\ last.plain = <<0, 0, 255>>
    /\ last.sid0 = <<>>
    /\ session_id = <<>>
    /\ ~stop_event

\* C8: a start() that failed leaves the session as it was built: state
\* init, no worker, no socket, no cipher.
C8_FailedStartLeavesNothing ==
    (startPc = "idle" /\ call.result \in {"False", "raised"}) =>
        /\ state = "init"
        /\ worker = "none"
        /\ sock = "none"
        /\ cipher = NoCipher

\* C9: an init response with a status other than 200 fails the handshake:
\* no key is derived, no auth request is sent, the session is not ready.
C9_RejectedInitFails ==
    (call.init /\ call.status \notin {0, HttpOk}) =>
        /\ ~call.key
        /\ ~call.auth
        /\ state # "ready"

\* C10: when the availability check reports the host unreachable, start()
\* issues neither the init nor the auth request and the state stays init.
C10_UnreachableRefused ==
    (call.result # "none" /\ ~call.hostUp) =>
        /\ ~call.init
        /\ ~call.auth
        /\ call.result = "False"
        /\ startPc = "idle"
        /\ state = "init"

\* C10 witness: start() has returned False on an unreachable host
C10_Witness ==
    /\ last.op = "start"
    /\ ~call.hostUp
    /\ call.result = "False"

\* C11: start_stream called while the identity is empty (by a caller, by
\* _handle after a SESSION_ID with an empty identity, by _cb_stop_test after
\* it dropped the test stream) constructs no stream and leaves the stream
\* reference, the stream's stop signal, the state and the stop signal as
\* they were when it was called.
C11_StartStreamNeedsIdentity ==
    [][ (last'.boot /\ session_id' = <<>>) =>
            /\ last'.made = "none"
            /\ stream' = IF last'.op = "_cb_stop_test" THEN "none" ELSE stream
            /\ stream_stop' =
                   IF last'.op = "_cb_stop_test" THEN "none" ELSE stream_stop
            /\ state' = state
            /\ stop_event' = stop_event ]_vars

\* C11 witness: a caller asked a ready session that has no identity for a
\* stream, and none was made
C11_Witness ==
    /\ last.op = "start_stream"
    /\ last.boot
    /\ state = "ready"
    /\ session_id = <<>>
    /\ stream = "none"

\* C12: the state is ready only after a handshake that succeeded, it is
\* stopped once the receive loop has exited and closed the socket, and from
\* stopped it never changes.
C12_InitReadyStopped ==
    /\ state = "ready" => call.result = "None"
    /\ (worker = "exited" /\ sock = "closed") => state = "stopped"

\* the state the code leaves a session in whose loop has exited
StateAfterExit ==
    (worker = "exited" /\ sock = "closed") => state = "ready"

\* C13: after a read that returned no bytes the loop eventually exits and
\* the socket is closed; from that read on no message is dispatched, and the
\* exited loop starts no handshake.
C13_PeerCloseStopsLoop ==
    /\ (sock = "eof") ~> (worker = "exited" /\ sock = "closed")
    /\ [][ (sock = "eof" \/ worker = "exited") =>
               /\ last'.op # "_handle"
               /\ call' = call
               /\ startPc' = startPc ]_vars
    /\ [][ worker = "exited" => (worker' = "exited" /\ sock' = "closed") ]_vars

\* C13 witness: the read returned no bytes while a session with an identity
\* was running: the stop signal is set, the loop has yet to exit
C13_Witness ==
    /\ last.op = "recv"
    /\ stop_event
    /\ ~last.stop0
    /\ worker = "running"
    /\ sock = "eof"
    /\ session_id # <<>>

\* C14: a test stream holds a stop signal of its own and a non-test stream
\* the session's: setting a test stream's stop signal leaves the session's
\* stop signal and its loop as they were, setting a non-test stream's sets
\* the session's.
C14_TestStopIsOwn ==
    /\ [](stream = "test" => stream_stop = "own")
    /\ [](stream = "real" => stream_stop = "session")
    /\ [][ (last'.op = "stream_stop" /\ stream = "test") =>
               (stop_event' = stop_event /\ worker' = worker) ]_vars
    /\ [][ (last'.op = "stream_stop" /\ stream = "real") => stop_event' ]_vars

\* C14 witness: a test stream's stop signal was set while the loop runs,
\* and the session's stop signal is not set
C14_Witness ==
    /\ last.op = "stream_stop"
    /\ stream = "test"
    /\ ~stop_event
    /\ worker = "running"
    /\ sock = "open"

\* a non-test stream's stop signal was set while the loop runs
C14_SharedWitness ==
    /\ last.op = "stream_stop"
    /\ stream = "real"
    /\ stop_event
    /\ ~last.stop0
    /\ worker = "running"

\* C15: dispatching a HEARTBEAT_RESPONSE frame (type 0x01FE) records the
\* time as last heartbeat and writes no frame in reply.
C15_HeartbeatResponseSilent ==
    (Dispatched /\ DeclaredType(last.data) = HEARTBEAT_RESPONSE) =>
        /\ hb_last = last.t0
        /\ last.sent = <<>>

\* C16: dispatching a HEARTBEAT_REQUEST records the time as last heartbeat,
\* puts exactly one HEARTBEAT_RESPONSE frame with the echo payload on the
\* send queue, and emits no heartbeat request.
C16_HeartbeatRequestEnqueuesEcho ==
    [][ ( /\ last'.op = "_handle"
          /\ Complete(last'.data)
          /\ DeclaredType(last'.data) = HEARTBEAT_REQUEST ) =>
            /\ hb_last' = now
            /\ send_buf' =
                   Append(send_buf, _build_msg(HEARTBEAT_RESPONSE,
                                               HEARTBEAT_RESPONSE_PAYLOAD))
            /\ last'.sent = <<>> ]_vars

\* what the code does with a HEARTBEAT_REQUEST: the time is recorded and the
\* one response frame goes to the socket, with no heartbeat request
HeartbeatRequestEchoed ==
    (Dispatched /\ DeclaredType(last.data) = HEARTBEAT_REQUEST) =>
        /\ hb_last = last.t0
        /\ last.sent = << _build_msg(HEARTBEAT_RESPONSE,
                                     HEARTBEAT_RESPONSE_PAYLOAD) >>
        /\ send_buf = <<>>

\* C17: whatever a read returned after a whole first frame, a dispatch
\* decrypts the bytes the header declares and no more: the cipher advances
\* by the declared payload length, and by what the frames written in reply
\* took.
C17_DecryptsDeclaredLength ==
    ( /\ last.op = "_handle"
      /\ Len(last.data) >= HEADER_LENGTH
      /\ Len(last.data) >= HEADER_LENGTH + DeclaredLength(last.data) ) =>
        cipher = last.pos0 + DeclaredLength(last.data)
                     + DeclaredTotal(last.sent)

\* the same, for reads that returned one whole frame and nothing after it
DecryptsWholeFrame == Dispatched => C17_DecryptsDeclaredLength

\* C18: once the loop runs, it alone calls encrypt and decrypt on the
\* session's cipher: every operation that used the cipher is a dispatch made
\* by the loop.
C18_LoopOwnsCipher ==
    (worker = "running" /\ last.crypt > 0) => last.op = "_handle"

\* C19: after each read attempt of the loop the send queue is empty, the
\* loop having written every queued frame to the socket.
C19_LoopDrainsQueue ==
    (worker = "running" /\ last.op \in {"_handle", "select", "recv"}) =>
        send_buf = <<>>

\* send() itself: a call writes the frame at the head of the queue and
\* leaves the others queued
SendWritesHead ==
    [][ (last'.op = "send" /\ send_buf # <<>>) =>
            /\ last'.sent = << Head(send_buf) >>
            /\ send_buf' = Tail(send_buf) ]_vars

\* a call of send() that left a frame on the queue
SendLeftFrames == last.op = "send" /\ last.sent # <<>> /\ send_buf # <<>>

\* a whole SESSION_ID frame was dispatched whose identity is text
ValidSessionId ==
    /\ Dispatched
    /\ DeclaredType(last.data) = SESSION_ID
    /\ IsValidText(SubSeq(last.plain, 3, Len(last.plain)))

\* C20 as stated: on a valid SESSION_ID the identity is stored before the
\* notification, and then either the registered callback is invoked and no
\* bootstrap starts, or no callback is registered and the default bootstrap
\* starts a test stream.
C20_CallbackXorBootstrap ==
    ValidSessionId =>
        LET sid == SubSeq(last.plain, 3, Len(last.plain))
        IN  /\ session_id = sid
            /\ last.seen = sid
            /\ \/ cb_start /\ last.cb /\ last.made = "none"
               \/ ~cb_start /\ ~last.cb /\ last.made = "test"

\* C20 amended: on a valid SESSION_ID the identity is stored before the
\* notification, and then exactly one call is made: the registered callback,
\* or start_stream in test mode when none is registered; that call
\* constructs the test stream only when the stored identity is not empty.
C20_CallbackXorStartStream ==
    ValidSessionId =>
        LET sid == SubSeq(last.plain, 3, Len(last.plain))
        IN  /\ session_id = sid
            /\ last.seen = sid
            /\ last.cb = cb_start
            /\ last.boot = ~cb_start
            /\ last.made = IF ~cb_start /\ sid # <<>> THEN "test" ELSE "none"
            /\ last.made = "test" => stream = "test"

\* C20 witness: a valid SESSION_ID reached a session without a callback and
\* the bootstrap made a test stream
C20_Witness ==
    /\ ValidSessionId
    /\ ~cb_start
    /\ session_id = <<65>>
    /\ last.boot
    /\ last.made = "test"

\* a valid SESSION_ID reached a session with a callback
C20_CallbackWitness ==
    /\ ValidSessionId
    /\ cb_start
    /\ session_id = <<65>>
    /\ last.cb
    /\ ~last.boot

\* C21: when a test stream stops, _cb_stop_test drops the session's stream
\* reference and makes exactly one non-test stream, which is given the
\* measurements of the test stream that stopped.
C21_TestThenRealWithMeasurements ==
    last.op = "_cb_stop_test" =>
        /\ ~last.raised
        /\ last.boot
        /\ last.made = "real"
        /\ last.mtu = "own"
        /\ stream = "real"

\* what the code does when the test stream that stopped is the one the
\* session references and the identity is still set
ReferencedTestHandsOver ==
    [][ ( /\ last'.op = "_cb_stop_test"
          /\ stream = "test"
          /\ orphans = 0
          /\ session_id # <<>> ) =>
            /\ last'.made = "real"
            /\ last'.mtu = "own"
            /\ stream' = "real" ]_vars

\* C22: driven by the peer's messages alone, a session without a callback
\* starts at most one non-test stream; stated as what that implies of each
\* step: no non-test stream is made while the session references the
\* non-test stream it made before.
C22_OneRealStream ==
    [][ (~cb_start /\ stream = "real") => last'.made # "real" ]_vars

====
